---- MODULE Spec2Model ----
(***************************************************************************)
(* Model of the customer store of src/main.py: the two request handlers    *)
(* add_customer and update_customer, run by concurrent worker threads,     *)
(* each doing load_customers / mutate / save_customers on one JSON file.   *)
(*                                                                         *)
(* The file is a sequence of tokens: "[" , one token per record, "]".      *)
(* json.dump produces it, json.load accepts exactly that shape; anything   *)
(* else (an empty file, a prefix, a hole, trailing data) does not parse.   *)
(* A save is open(FILE_PATH, "w"), which truncates, then one write for     *)
(* each buffer-full of text, each at the offset of the writer's own        *)
(* descriptor.                                                             *)
(***************************************************************************)
EXTENDS Integers, Sequences, FiniteSets, Bags, TLC

\* ---------------------------------------------------------------- bounds
NumProcs == 2      \* worker threads serving requests
MaxOps == 2        \* requests accepted in one behaviour
BufSize == 3       \* tokens that fill the write buffer of an open file

Procs == 1..NumProcs

\* ---------------------------------------------------------------- inputs
Ids == {"", "1", "2"}
Names == {"a"}

\* class Customer(BaseModel): four str fields, no further validation
Customer == [id : Ids, name : Names, phone : {"p"}, address : {"x"}]

NoDict == [f \in {} |-> ""]

\* PUT /customers/{customer_id} with an arbitrary dict as body: one that
\* overwrites a field and adds one, and one that overwrites the id
UpdateInputs ==
    {<<"1", [name |-> "c", email |-> "e"]>>,
     <<"2", [name |-> "c", email |-> "e"]>>,
     <<"1", [id |-> "2"]>>}

NoCustomer == NoDict

AddRequests == {[kind |-> "add", customer |-> c, customer_id |-> "", updated |-> NoDict] : c \in Customer}
UpdateRequests == {[kind |-> "update", customer |-> NoCustomer, customer_id |-> x[1], updated |-> x[2]] : x \in UpdateInputs}
Requests == AddRequests \cup UpdateRequests
NoRequest == [kind |-> "none", customer |-> NoCustomer, customer_id |-> "", updated |-> NoDict]

\* ---------------------------------------------------------------- the file
TokOpen == [t |-> "["]
TokClose == [t |-> "]"]
TokNul == [t |-> "nul"]
TokRec(r) == [t |-> "rec", r |-> r]

\* FILE_PATH before the first save: the file does not exist
NoFile == [exists |-> FALSE, content |-> <<>>]

\* json.dump(customers, f, indent=2): the text written for a list
json_dump(cs) == <<TokOpen>> \o [i \in 1..Len(cs) |-> TokRec(cs[i])] \o <<TokClose>>

\* does json.load accept this text
json_ok(content) ==
    /\ Len(content) >= 2
    /\ content[1] = TokOpen
    /\ content[Len(content)] = TokClose
    /\ \A i \in 2..(Len(content) - 1) : content[i].t = "rec"

\* json.load(f) followed by the bare except: the list, or [] when it raises
json_load(content) ==
    IF json_ok(content)
    THEN [i \in 1..(Len(content) - 2) |-> content[i + 1].r]
    ELSE <<>>

\* load_customers() as it would be if a missing file gave a blank customer
\* to start from, not the empty list
load_customers_Placeholder(f) ==
    IF ~f.exists THEN <<[id |-> "", name |-> "", phone |-> "", address |-> ""]>>
    ELSE json_load(f.content)

\* load_customers() as a function of the file it finds
load_customers(f) == IF ~f.exists THEN <<>> ELSE json_load(f.content)

\* f.write(chunk) on a descriptor whose offset is pos: bytes before pos that
\* the file does not have are a hole, bytes after the chunk stay
WriteAt(content, pos, chunk) ==
    LET n == IF Len(content) > pos + Len(chunk) THEN Len(content) ELSE pos + Len(chunk)
    IN [i \in 1..n |->
          IF i <= pos THEN (IF i <= Len(content) THEN content[i] ELSE TokNul)
          ELSE IF i <= pos + Len(chunk) THEN chunk[i - pos]
          ELSE content[i]]

\* ---------------------------------------------------------------- handlers' pure parts
\* the fields class Customer declares
CustomerFields == {"id", "name", "phone", "address"}

\* customer.dict() as it would be if a declared field were left out of it
customer_dict_NoAddress(c) == [f \in CustomerFields \ {"address"} |-> c[f]]

\* customer.dict(): the declared fields of the validated model, as a dict
customer_dict(c) == [f \in CustomerFields |-> c[f]]

\* the append as it would be if the new record were put in front
list_append_Front(cs, c) == <<c>> \o cs

\* the append as it would be if the list were replaced by the new record
list_append_Only(cs, c) == <<c>>

\* customers.append(...)
list_append(cs, c) == Append(cs, c)

\* the loop as it would be if the loop variable were used after a loop that
\* found nothing: the last record stands in for the missing one
FindFirst_LastOnMiss(cs, cid) ==
    IF \E i \in 1..Len(cs) : cs[i]["id"] = cid
    THEN CHOOSE i \in 1..Len(cs) : cs[i]["id"] = cid /\ \A j \in 1..(i - 1) : cs[j]["id"] # cid
    ELSE Len(cs)

\* the loop as it would be without the return inside it: the last record
\* with the id is the one that stays updated
FindFirst_LastHit(cs, cid) ==
    IF \E i \in 1..Len(cs) : cs[i]["id"] = cid
    THEN CHOOSE i \in 1..Len(cs) : cs[i]["id"] = cid /\ \A j \in (i + 1)..Len(cs) : cs[j]["id"] # cid
    ELSE 0

\* for c in customers: if c["id"] == customer_id: the index of the first hit, 0 if none
FindFirst(cs, cid) ==
    IF \E i \in 1..Len(cs) : cs[i]["id"] = cid
    THEN CHOOSE i \in 1..Len(cs) : cs[i]["id"] = cid /\ \A j \in 1..(i - 1) : cs[j]["id"] # cid
    ELSE 0

\* the merge as it would be if it only assigned the fields c already has
dict_update_KnownKeys(c, u) == [f \in DOMAIN c |-> IF f \in DOMAIN u THEN u[f] ELSE c[f]]

\* c.update(updated)
dict_update(c, u) == [f \in (DOMAIN c) \cup (DOMAIN u) |-> IF f \in DOMAIN u THEN u[f] ELSE c[f]]

\* ---------------------------------------------------------------- state
VARIABLES
    file,       \* the file at FILE_PATH: [exists, content]
    pc,         \* per thread: where its handler is
    req,        \* per thread: the request it serves
    customers,  \* per thread: the local list `customers`
    pos,        \* per thread: offset of its write descriptor
    result,     \* per thread: the response, [status, data]
    seen,       \* history: the file as load_customers found it
    racing,     \* history: load_customers read between another save's open and end
    intf,       \* history: another thread wrote the file during this request
    hist,       \* history: the bag of requests accepted so far
    failed,     \* history: some save was cut short
    file0       \* history: the file when the service started

vars == <<file, pc, req, customers, pos, result, seen, racing, intf, hist, failed, file0>>

NoResult == [status |-> "none", data |-> NoDict]

\* what earlier runs of the service can have left at FILE_PATH: nothing, or
\* the list saved after POST id "1" and POST id "2"
StoredAtStart ==
    LET c1 == [id |-> "1", name |-> "a", phone |-> "p", address |-> "x"]
        c2 == [id |-> "2", name |-> "a", phone |-> "p", address |-> "x"]
    IN {NoFile, [exists |-> TRUE, content |-> json_dump(<<c1, c2>>)]}

Init ==
    /\ file \in StoredAtStart
    /\ pc = [p \in Procs |-> "idle"]
    /\ req = [p \in Procs |-> NoRequest]
    /\ customers = [p \in Procs |-> <<>>]
    /\ pos = [p \in Procs |-> 0]
    /\ result = [p \in Procs |-> NoResult]
    /\ seen = [p \in Procs |-> NoFile]
    /\ racing = [p \in Procs |-> FALSE]
    /\ intf = [p \in Procs |-> FALSE]
    /\ hist = EmptyBag
    /\ failed = FALSE
    /\ file0 = file

\* the threads, other than p, that have a request in hand
Others(p) == {q \in Procs : q # p /\ pc[q] # "idle"}
Disturb(p) == [q \in Procs |-> IF q \in Others(p) THEN TRUE ELSE intf[q]]
Saving(p) == \E q \in Procs : q # p /\ pc[q] = "write"
Free(p) == pc[p] \in {"idle", "done"}

\* a request arrives; the pool hands it to its first free worker thread, whose
\* locals start afresh, and the handler calls load_customers(). The existence
\* test and the read are one step: the file is never removed, so a test that
\* finds it holds until the read. The step after it (append, or the loop over
\* the list) touches locals only and is part of the same step.
Begin(p, r) ==
    /\ Free(p)
    /\ \A q \in Procs : q < p => ~Free(q)
    /\ BagCardinality(hist) < MaxOps
    /\ req' = [req EXCEPT ![p] = r]
    /\ hist' = hist (+) SetToBag({r})
    /\ seen' = [seen EXCEPT ![p] = file]
    /\ racing' = [racing EXCEPT ![p] = Saving(p)]
    /\ intf' = [intf EXCEPT ![p] = FALSE]
    /\ pos' = [pos EXCEPT ![p] = 0]
    /\ UNCHANGED <<file, failed, file0>>

\* add_customer: customers = load_customers(); customers.append(customer.dict());
\* the response will carry the model object `customer`
AddAppend(p) ==
    \E r \in AddRequests :
        /\ Begin(p, r)
        /\ customers' = [customers EXCEPT ![p] = list_append(load_customers(file), customer_dict(r.customer))]
        /\ result' = [result EXCEPT ![p] = [status |-> "none", data |-> r.customer]]
        /\ pc' = [pc EXCEPT ![p] = "open"]

\* update_customer: customers = load_customers(); the loop reaches a record
\* with the id; c.update(updated)
UpdateFound(p) ==
    \E r \in UpdateRequests :
        /\ Begin(p, r)
        /\ FindFirst(load_customers(file), r.customer_id) # 0
        /\ LET cs == load_customers(file)
               i == FindFirst(cs, r.customer_id)
               c == dict_update(cs[i], r.updated)
           IN /\ customers' = [customers EXCEPT ![p] = [cs EXCEPT ![i] = c]]
              /\ result' = [result EXCEPT ![p] = [status |-> "none", data |-> c]]
        /\ pc' = [pc EXCEPT ![p] = "open"]

\* update_customer: customers = load_customers(); the loop ends without a hit;
\* raise HTTPException(status_code=404)
UpdateNotFound(p) ==
    \E r \in UpdateRequests :
        /\ Begin(p, r)
        /\ FindFirst(load_customers(file), r.customer_id) = 0
        /\ customers' = [customers EXCEPT ![p] = load_customers(file)]
        /\ result' = [result EXCEPT ![p] = [status |-> "404", data |-> NoDict]]
        /\ pc' = [pc EXCEPT ![p] = "done"]

\* save_customers: open(FILE_PATH, "w") creates or truncates the file
SaveOpen(p) ==
    /\ pc[p] = "open"
    /\ file' = [exists |-> TRUE, content |-> <<>>]
    /\ pos' = [pos EXCEPT ![p] = 0]
    /\ intf' = Disturb(p)
    /\ pc' = [pc EXCEPT ![p] = "write"]
    /\ UNCHANGED <<req, customers, result, seen, racing, hist, failed, file0>>

\* the write as it would be if it sent the same buffer again and again, never
\* moving on
SaveWrite_NoAdvance(p) ==
    /\ pc[p] = "write"
    /\ LET text == json_dump(customers[p])
           rest == Len(text) - pos[p]
           n == IF rest > BufSize THEN BufSize ELSE rest
       IN file' = [exists |-> TRUE,
                   content |-> WriteAt(file.content, pos[p], SubSeq(text, pos[p] + 1, pos[p] + n))]
    /\ intf' = Disturb(p)
    /\ UNCHANGED <<pc, pos, req, customers, result, seen, racing, hist, failed, file0>>

\* save_customers: json.dump fills the buffer of f; each time it is full, and
\* when the with block closes f, the buffer is written at f's offset
SaveWrite(p) ==
    /\ pc[p] = "write"
    /\ LET text == json_dump(customers[p])
           rest == Len(text) - pos[p]
           n == IF rest > BufSize THEN BufSize ELSE rest
       IN /\ file' = [exists |-> TRUE,
                      content |-> WriteAt(file.content, pos[p], SubSeq(text, pos[p] + 1, pos[p] + n))]
          /\ pos' = [pos EXCEPT ![p] = pos[p] + n]
          /\ pc' = [pc EXCEPT ![p] = IF n = rest THEN "return" ELSE "write"]
    /\ intf' = Disturb(p)
    /\ UNCHANGED <<req, customers, result, seen, racing, hist, failed, file0>>

\* save_customers is cut short after the open (a write raises, the thread is
\* killed): what reached the file stays there, the request ends in a 500
SaveFail(p) ==
    /\ pc[p] = "write"
    /\ result' = [result EXCEPT ![p] = [status |-> "500", data |-> NoDict]]
    /\ failed' = TRUE
    /\ pc' = [pc EXCEPT ![p] = "done"]
    /\ UNCHANGED <<file, req, customers, pos, seen, racing, intf, hist, file0>>

\* return {"message": ..., "data": ...}
Return(p) ==
    /\ pc[p] = "return"
    /\ result' = [result EXCEPT ![p] = [status |-> "200", data |-> result[p].data]]
    /\ pc' = [pc EXCEPT ![p] = "done"]
    /\ UNCHANGED <<file, req, customers, pos, seen, racing, intf, hist, failed, file0>>

Next ==
    \E p \in Procs :
        \/ AddAppend(p)
        \/ UpdateFound(p)
        \/ UpdateNotFound(p)
        \/ SaveOpen(p)
        \/ SaveWrite(p)
        \/ SaveFail(p)
        \/ Return(p)

Spec == Init /\ [][Next]_vars

\* a thread that is inside a handler keeps being scheduled: the steps of a
\* request in hand are taken sooner or later. Nothing makes a request arrive,
\* and nothing makes a save fail.
Fairness ==
    \A p \in Procs :
        /\ WF_vars(SaveOpen(p))
        /\ WF_vars(SaveWrite(p))
        /\ WF_vars(Return(p))

FairSpec == Spec /\ Fairness

\* ================================================================ properties
Quiet == \A p \in Procs : Free(p)

\* the file holds a complete list (or was never written)
Intact(f) == ~f.exists \/ json_ok(f.content)

IdsOf(cs) == {cs[i]["id"] : i \in 1..Len(cs)}
HasId(cs, cid) == \E i \in 1..Len(cs) : cs[i]["id"] = cid
Saved(cs) == [exists |-> TRUE, content |-> json_dump(cs)]

\* the thread has a request in hand, loaded and past its mutate step
PastMutate(p) == pc[p] \in {"open", "write", "return", "done"}

\* one request applied to a list, as its handler does when it runs alone
Apply(cs, r) ==
    IF r.kind = "add" THEN list_append(cs, customer_dict(r.customer))
    ELSE IF FindFirst(cs, r.customer_id) = 0 THEN cs
    ELSE [cs EXCEPT ![FindFirst(cs, r.customer_id)] = dict_update(cs[FindFirst(cs, r.customer_id)], r.updated)]

\* the lists that running the requests of a bag one after the other can give
RECURSIVE SerialResults(_, _)
SerialResults(cs, bag) ==
    IF BagToSet(bag) = {} THEN {cs}
    ELSE UNION {SerialResults(Apply(cs, r), bag (-) SetToBag({r})) : r \in BagToSet(bag)}

\* C1: once N Create requests with pairwise distinct (non-empty) ids, issued
\* against a fresh store, have all returned, the stored list has exactly N
\* records and holds all N ids
C1_NoLostCreate ==
    ( /\ Quiet
      /\ ~failed
      /\ file0 = NoFile
      /\ BagCardinality(hist) >= 2
      /\ \A r \in BagToSet(hist) : r.kind = "add" /\ r.customer["id"] # "" /\ CopiesIn(r, hist) = 1
      /\ Cardinality({r.customer["id"] : r \in BagToSet(hist)}) = BagCardinality(hist) )
    => /\ Intact(file)
       /\ Len(load_customers(file)) = BagCardinality(hist)
       /\ IdsOf(load_customers(file)) = {r.customer["id"] : r \in BagToSet(hist)}

\* C2: no two records of the stored list have the same id
C2_UniqueIds ==
    json_ok(file.content) =>
        \A i, j \in 1..Len(json_load(file.content)) :
            i # j => json_load(file.content)[i]["id"] # json_load(file.content)[j]["id"]

\* C3: a Create whose id is already in the list it loaded ends in
\* DuplicateIdError and leaves the file as it found it
C3_DuplicateRejected ==
    \A p \in Procs :
        ( /\ pc[p] = "done"
          /\ req[p].kind = "add"
          /\ ~failed
          /\ HasId(load_customers(seen[p]), req[p].customer["id"]) )
        => /\ result[p].status = "DuplicateIdError"
           /\ ~intf[p] => file = seen[p]

\* C4: a Create and an Update, or two Updates of different records, once both
\* have returned, leave the list that running them one after the other, in
\* one of the two orders, gives
C4_Serialized ==
    ( /\ Quiet
      /\ ~failed
      /\ BagCardinality(hist) = 2
      /\ \E r1, r2 \in BagToSet(hist) :
            /\ r1 # r2
            /\ r2.kind = "update"
            /\ r1.kind = "add" \/ (r1.kind = "update" /\ r1.customer_id # r2.customer_id) )
    => /\ Intact(file)
       /\ load_customers(file) \in SerialResults(load_customers(file0), hist)

\* C5: after a save that was cut short, with no other thread writing, the
\* file holds the complete list of before the request or the complete list
\* of after it
C5_CrashSafe ==
    \A p \in Procs :
        ( /\ pc[p] = "done"
          /\ result[p].status = "500"
          /\ Intact(seen[p])
          /\ ~intf[p] )
        => /\ Intact(file)
           /\ load_customers(file) \in {load_customers(seen[p]), customers[p]}

\* C6: a load that reads while another thread is saving finds a complete list
C6_NoTornRead ==
    \A p \in Procs : (racing[p] /\ ~failed) => Intact(seen[p])

\* C7: a request that finds the file malformed (left so by an earlier save,
\* no save being under way) ends in CorruptStoreError and leaves the file as
\* it found it
C7_CorruptReported ==
    \A p \in Procs :
        ( /\ pc[p] = "done"
          /\ ~racing[p]
          /\ seen[p].exists
          /\ ~json_ok(seen[p].content) )
        => /\ result[p].status = "CorruptStoreError"
           /\ ~intf[p] => file = seen[p]

\* C8: an Update whose id no record of the loaded list has ends in 404
\* without entering save_customers, and with no other thread writing the
\* file is as the request found it
C8_UpdateMissing ==
    \A p \in Procs :
        ( /\ req[p].kind = "update"
          /\ PastMutate(p)
          /\ ~HasId(load_customers(seen[p]), req[p].customer_id) )
        => /\ pc[p] = "done"
           /\ result[p].status = "404"
           /\ ~intf[p] => file = seen[p]

C8_Witness ==
    \E p \in Procs :
        /\ pc[p] = "done"
        /\ req[p].kind = "update"
        /\ result[p].status = "404"
        /\ Len(load_customers(seen[p])) > 0
        /\ ~HasId(load_customers(seen[p]), req[p].customer_id)
        /\ file = seen[p]

\* C9: an Update whose id a record of the loaded list has changes, in the
\* first such record, exactly the fields of `updated` (adding the new ones),
\* changes no other record, saves that list, and returns the merged record
C9_UpdateMerges ==
    \A p \in Procs :
        ( /\ req[p].kind = "update"
          /\ PastMutate(p)
          /\ HasId(load_customers(seen[p]), req[p].customer_id) )
        => LET loaded == load_customers(seen[p])
               i == CHOOSE k \in 1..Len(loaded) :
                        /\ loaded[k]["id"] = req[p].customer_id
                        /\ \A j \in 1..(k - 1) : loaded[j]["id"] # req[p].customer_id
               old == loaded[i]
               u == req[p].updated
               now == customers[p]
           IN /\ Len(now) = Len(loaded)
              /\ \A j \in 1..Len(loaded) : j # i => now[j] = loaded[j]
              /\ DOMAIN now[i] = (DOMAIN old) \cup (DOMAIN u)
              /\ \A f \in DOMAIN u : now[i][f] = u[f]
              /\ \A f \in (DOMAIN old) \ (DOMAIN u) : now[i][f] = old[f]
              /\ pc[p] = "done" => result[p].status \in {"200", "500"}
              /\ result[p].status = "200" => result[p].data = now[i]
              /\ (pc[p] \in {"return", "done"} /\ result[p].status # "500" /\ ~intf[p])
                     => file = Saved(now)

C9_Witness ==
    \E p \in Procs :
        /\ pc[p] = "done"
        /\ req[p].kind = "update"
        /\ result[p].status = "200"
        /\ req[p].updated = [name |-> "c", email |-> "e"]
        /\ Len(customers[p]) = 2
        /\ ~intf[p]
        /\ file = Saved(customers[p])

\* C10: a Create whose id is the empty string ends in InvalidRecordError and
\* leaves the file as it found it
C10_EmptyIdRejected ==
    \A p \in Procs :
        ( /\ pc[p] = "done"
          /\ req[p].kind = "add"
          /\ ~failed
          /\ req[p].customer["id"] = "" )
        => /\ result[p].status = "InvalidRecordError"
           /\ ~intf[p] => file = seen[p]

\* the request of p ran by itself on a well-formed store: its load found a
\* complete list with no save under way, its save went through, and no other
\* thread has written the file since its load
RanAlone(p) ==
    /\ pc[p] \in {"return", "done"}
    /\ result[p].status # "500"
    /\ Intact(seen[p])
    /\ ~racing[p]
    /\ ~intf[p]

\* C11: a Create that ran by itself leaves the list it found, record for
\* record in the same order, followed by the new record: Creates made one
\* after the other are all there, in the order they were made
C11_CreateAppendsInOrder ==
    \A p \in Procs :
        (req[p].kind = "add" /\ RanAlone(p))
        => LET before == load_customers(seen[p])
               after == load_customers(file)
           IN /\ Intact(file)
              /\ Len(after) = Len(before) + 1
              /\ \A j \in 1..Len(before) : after[j] = before[j]
              /\ after[Len(after)] = req[p].customer

C11_Witness ==
    \E p \in Procs :
        /\ req[p].kind = "add"
        /\ RanAlone(p)
        /\ pc[p] = "done"
        /\ file0 = NoFile
        /\ Len(load_customers(seen[p])) = 1
        /\ Len(load_customers(file)) = 2
        /\ load_customers(file)[1]["id"] # load_customers(file)[2]["id"]

\* C12: a Create that answers 200 returns the record it was given, and a load
\* made before any other thread writes finds a record with exactly the
\* fields and values of that record
C12_CreateRoundTrip ==
    \A p \in Procs :
        (pc[p] = "done" /\ req[p].kind = "add" /\ result[p].status = "200")
        => /\ result[p].data = req[p].customer
           /\ ~intf[p] =>
                 \E j \in 1..Len(load_customers(file)) :
                     LET got == load_customers(file)[j]
                     IN /\ DOMAIN got = DOMAIN req[p].customer
                        /\ \A f \in DOMAIN got : got[f] = req[p].customer[f]

C12_Witness ==
    \E p \in Procs :
        /\ pc[p] = "done"
        /\ req[p].kind = "add"
        /\ result[p].status = "200"
        /\ ~intf[p]
        /\ req[p].customer \in {load_customers(file)[j] : j \in 1..Len(load_customers(file))}

\* C13: a request that finds no file goes on from the empty list and the load
\* raises nothing: an Update ends in 404 with nothing written, a Create
\* holds the one-record list and, unless its save is cut short, answers 200;
\* with no other thread writing, the file then holds exactly that one record
C13_MissingFileIsEmpty ==
    \A p \in Procs :
        (req[p].kind # "none" /\ ~seen[p].exists)
        => /\ req[p].kind = "update" =>
                 /\ pc[p] = "done"
                 /\ result[p].status = "404"
                 /\ customers[p] = <<>>
           /\ req[p].kind = "add" =>
                 /\ customers[p] = <<req[p].customer>>
                 /\ pc[p] = "done" => result[p].status \in {"200", "500"}
                 /\ (pc[p] = "done" /\ result[p].status = "200" /\ ~intf[p]) =>
                        /\ file.exists
                        /\ json_ok(file.content)
                        /\ Len(file.content) = 3
                        /\ file.content[2] = TokRec(req[p].customer)

C13_Witness ==
    \E p \in Procs :
        /\ pc[p] = "done"
        /\ req[p].kind = "add"
        /\ ~seen[p].exists
        /\ result[p].status = "200"
        /\ ~intf[p]
        /\ Len(load_customers(file)) = 1

\* C14: whenever a Create or an Update returns success, the file at that
\* moment holds the record that was created or merged
C14_FlushedBeforeAck ==
    [][\A p \in Procs :
          (pc[p] = "return" /\ pc'[p] = "done" /\ result'[p].status = "200")
          => \E j \in 1..Len(load_customers(file')) :
                 load_customers(file')[j] = result'[p].data]_vars

\* C15: a request in hand, whatever the other threads do and whatever ended
\* before it, reaches its response: 200, 404, or the 500 of a save cut short
C15_Completes ==
    \A p \in Procs :
        (pc[p] \in {"open", "write", "return"})
            ~> (pc[p] = "done" /\ result[p].status \in {"200", "404", "500"})

C15_Witness ==
    \E p, q \in Procs :
        /\ p # q
        /\ pc[p] = "done"
        /\ result[p].status = "200"
        /\ racing[p]
        /\ pc[q] = "done"
        /\ result[q].status = "500"

\* the positions of the records of a list that have the id
Hits(cs, cid) == {j \in 1..Len(cs) : cs[j]["id"] = cid}

\* C16: an Update that finds its id changes no record but the first one with
\* that id: every record at another position, a later one with the same id
\* included, is in the thread's list as it was loaded, and, the request
\* having run by itself, in the file as it was before
C16_UpdateFirstOnly ==
    \A p \in Procs :
        ( /\ req[p].kind = "update"
          /\ PastMutate(p)
          /\ Hits(load_customers(seen[p]), req[p].customer_id) # {} )
        => LET before == load_customers(seen[p])
               hits == Hits(before, req[p].customer_id)
               touched == {j \in 1..Len(before) : customers[p][j] # before[j]}
           IN /\ DOMAIN customers[p] = DOMAIN before
              /\ \A j \in touched : j \in hits /\ \A k \in hits : j <= k
              /\ RanAlone(p) =>
                    /\ Intact(file)
                    /\ Len(load_customers(file)) = Len(before)
                    /\ \A j \in 1..Len(before) :
                          load_customers(file)[j] # before[j] => (j \in hits /\ \A k \in hits : j <= k)

C16_Witness ==
    \E p \in Procs :
        /\ req[p].kind = "update"
        /\ pc[p] = "done"
        /\ result[p].status = "200"
        /\ RanAlone(p)
        /\ Cardinality(Hits(load_customers(seen[p]), req[p].customer_id)) >= 2
        /\ \E j \in 1..Len(load_customers(file)) : load_customers(file)[j] # load_customers(seen[p])[j]

\* C17: a request that ran by itself on a well-formed store leaves, if it is
\* a Create, one record more than it found, and if it is an Update (200 or
\* 404) as many records as it found, each at the position it had and with
\* the id-bearing record merged in place; the count has not gone down
C17_CountAndOrder ==
    \A p \in Procs :
        (req[p].kind # "none" /\ RanAlone(p))
        => LET before == load_customers(seen[p])
               after == load_customers(file)
           IN /\ Intact(file)
              /\ Len(after) >= Len(before)
              /\ req[p].kind = "add" => Len(after) = Len(before) + 1
              /\ req[p].kind = "update" =>
                    /\ Len(after) = Len(before)
                    /\ \A j \in 1..Len(before) :
                          \/ after[j] = before[j]
                          \/ /\ before[j]["id"] = req[p].customer_id
                             /\ \A f \in (DOMAIN before[j]) \ (DOMAIN req[p].updated) :
                                   after[j][f] = before[j][f]
                    /\ result[p].status = "404" => file = seen[p]

C17_Witness ==
    \E p \in Procs :
        /\ req[p].kind = "add"
        /\ pc[p] = "done"
        /\ RanAlone(p)
        /\ Len(load_customers(seen[p])) = 2
        /\ Len(load_customers(file)) = 3

====
